---- MODULE Spec2Model ----
(***************************************************************************)
(* Session state and button/form handlers of the two battery dashboards:   *)
(*   "rich"   : src/streamlit_battery_app.py  (cells, status, history)      *)
(*   "simple" : src/battery_streamlit_app.py  (cells, tasks)                *)
(* Each action is one script run triggered by one click (a handler and the  *)
(* st.rerun() that ends it).  Floats are fixed-point integers: voltages in  *)
(* tenths of a volt, currents and capacities in hundredths, temperatures    *)
(* in tenths of a degree.  A Python dict is a sequence of [key, val]        *)
(* records in insertion order.  A cell key <<n, t>> stands for the string   *)
(* "cell_<n>_<t>", a task key n for "task_<n>".                             *)
(***************************************************************************)
EXTENDS Integers, Sequences, FiniteSets, TLC

VARIABLES app, cells_data, cell_status, charging_history, tasks_data,
          last, issued, clicks, ops

vars == <<app, cells_data, cell_status, charging_history, tasks_data,
          last, issued, clicks, ops>>

---------------------------------------------------------------------------
(* Bounds of the exploration *)

\* clicks explored per session
MaxClicks == 5
\* charge / discharge / stop clicks explored per session, each weighted by
\* the number of cells in the registry when it is clicked
MaxOpWork == 8
\* largest "Number of Cells" entered in the simple variant's cell form
MaxFormCells == 2

(* Program constants *)
MaxRegistry == 8
FormCellsMax == 20
StepLo == 5
StepHi == 15

---------------------------------------------------------------------------
(* Python dict, as an insertion-ordered sequence of [key, val] *)

Keys(d) == {d[i].key : i \in 1..Len(d)}

IndexOf(d, k) == CHOOSE i \in 1..Len(d) : d[i].key = k

Get(d, k) == d[IndexOf(d, k)].val

\* d[k] = v : replaces in place when k is present, appends otherwise
Put(d, k, v) ==
    IF k \in Keys(d)
    THEN [d EXCEPT ![IndexOf(d, k)] = [key |-> k, val |-> v]]
    ELSE Append(d, [key |-> k, val |-> v])

\* del d[k], for k present
Del(d, k) ==
    LET i == IndexOf(d, k)
    IN  SubSeq(d, 1, i - 1) \o SubSeq(d, i + 1, Len(d))

Min(a, b) == IF a < b THEN a ELSE b
Max(a, b) == IF a > b THEN a ELSE b

\* variant: truncation instead of rounding
Round2Truncating(p) == p \div 10

\* round(x, 2) of x given in thousandths, result in hundredths (half to even)
Round2(p) ==
    LET q == p \div 10
        r == p % 10
    IN  IF r < 5 THEN q
        ELSE IF r > 5 THEN q + 1
        ELSE IF q % 2 = 0 THEN q ELSE q + 1

---------------------------------------------------------------------------
(* Rich variant: chemistry table and cell construction *)

CellTypes == {"lfp", "mnc", "nca", "lto", "lco"}

\* outcomes of the random draws of one calculate_cell_params call
RichDraws ==
    { [temp |-> 250, soc |-> 20,  health |-> 85,  cycles |-> 0],
      [temp |-> 400, soc |-> 100, health |-> 100, cycles |-> 500] }

\* values of the "Current (A)" input explored (0.1 .. 100.0)
\* submissions of the Add Cell form explored: selected_type, current_input
\* (0.1 .. 100.0) and the outcome of the random draws
AddInputs ==
    { [type |-> "lco", current |-> 13,
       draw |-> [temp |-> 250, soc |-> 20, health |-> 85, cycles |-> 0]],
      [type |-> "mnc", current |-> 10000,
       draw |-> [temp |-> 400, soc |-> 100, health |-> 100, cycles |-> 500]],
      [type |-> "lfp", current |-> 125,
       draw |-> [temp |-> 317, soc |-> 95, health |-> 92, cycles |-> 250]] }

RichVoltage(cell_type) == IF cell_type = "lfp" THEN 32 ELSE 36
RichMaxVol(cell_type) == IF cell_type = "mnc" THEN 34 ELSE 40
RichMinVol(cell_type) == IF cell_type = "lfp" THEN 28 ELSE 32

calculate_cell_params(cell_type, current, draw) ==
    [ voltage     |-> RichVoltage(cell_type),
      current     |-> current,
      temp        |-> draw.temp,
      capacity    |-> Round2(RichVoltage(cell_type) * current),
      max_voltage |-> RichMaxVol(cell_type),
      min_voltage |-> RichMinVol(cell_type),
      soc         |-> draw.soc,
      health      |-> draw.health,
      cycles      |-> draw.cycles,
      cell_type   |-> cell_type ]

---------------------------------------------------------------------------
(* Simple variant: chemistry table and cell construction *)

SimpleTypes == {"lfp", "li-ion"}

\* outcomes of the random draws of one create_cell_data call
SimpleDraws == { [current |-> 253, temp |-> 250], [current |-> 500, temp |-> 400] }

\* outcomes explored for the draws of n consecutive create_cell_data calls
SimpleDrawSeqs(n) ==
    LET lo == CHOOSE r \in SimpleDraws : r.current = 253
        hi == CHOOSE r \in SimpleDraws : r.current = 500
    IN  { [i \in 1..n |-> lo], [i \in 1..n |-> IF i % 2 = 1 THEN hi ELSE lo] }

create_cell_data(cell_type, draw) ==
    [ voltage     |-> IF cell_type = "lfp" THEN 32 ELSE 36,
      current     |-> draw.current,
      temp        |-> draw.temp,
      capacity    |-> Round2((IF cell_type = "lfp" THEN 32 ELSE 36) * draw.current),
      min_voltage |-> IF cell_type = "lfp" THEN 28 ELSE 32,
      max_voltage |-> IF cell_type = "lfp" THEN 36 ELSE 40 ]

---------------------------------------------------------------------------
Init ==
    /\ app \in {"rich", "simple"}
    /\ cells_data = <<>>
    /\ cell_status = <<>>
    /\ charging_history = <<>>
    /\ tasks_data = <<>>
    /\ last = [op |-> "start", key |-> <<>>, msg |-> "none"]
    /\ issued = {}
    /\ clicks = 0
    /\ ops = 0

\* one more script run, caused by handler op
Click(op, key, msg) ==
    /\ clicks < MaxClicks
    /\ clicks' = clicks + 1
    /\ last' = [op |-> op, key |-> key, msg |-> msg]
    /\ UNCHANGED ops

\* one more script run, caused by a charge / discharge / stop handler
OpClick(op, key, msg) ==
    /\ clicks < MaxClicks
    /\ ops + Len(cells_data) <= MaxOpWork
    /\ clicks' = clicks + 1
    /\ ops' = ops + Len(cells_data)
    /\ last' = [op |-> op, key |-> key, msg |-> msg]

---------------------------------------------------------------------------
(* Rich variant handlers *)

\* variant: cap compared with <= instead of <
AddCellAcceptedOffByOne(n) == n <= MaxRegistry

\* the Add Cell form stores a cell only below the cap
AddCellAccepted(n) == n < MaxRegistry

\* variant: the new cell gets no charging history
AddCellNoHistory(selected_type, current_input, draw) ==
    /\ app = "rich"
    /\ IF AddCellAccepted(Len(cells_data))
       THEN LET cell_count == Len(cells_data) + 1
                cell_key == <<cell_count, selected_type>>
            IN  /\ Click("AddCell", cell_key, "Added")
                /\ cells_data' = Put(cells_data, cell_key,
                        calculate_cell_params(selected_type, current_input, draw))
                /\ cell_status' = Put(cell_status, cell_key, "idle")
                /\ charging_history' = charging_history
       ELSE /\ Click("AddCell", <<>>, "none")
            /\ UNCHANGED <<cells_data, cell_status, charging_history>>
    /\ UNCHANGED <<app, tasks_data, issued>>

\* cell_form, "Add Cell" submitted with selected_type and current_input
AddCell(selected_type, current_input, draw) ==
    /\ app = "rich"
    /\ IF AddCellAccepted(Len(cells_data))
       THEN LET cell_count == Len(cells_data) + 1
                cell_key == <<cell_count, selected_type>>
            IN  /\ Click("AddCell", cell_key, "Added")
                /\ cells_data' = Put(cells_data, cell_key,
                        calculate_cell_params(selected_type, current_input, draw))
                /\ cell_status' = Put(cell_status, cell_key, "idle")
                /\ charging_history' = Put(charging_history, cell_key, <<>>)
       ELSE /\ Click("AddCell", <<>>, "none")
            /\ UNCHANGED <<cells_data, cell_status, charging_history>>
    /\ UNCHANGED <<app, tasks_data, issued>>

\* variant: the status map is not reset
ClearAllCellsKeepsStatus ==
    /\ app = "rich"
    /\ Click("ClearAllCells", <<>>, "none")
    /\ cells_data' = <<>>
    /\ charging_history' = <<>>
    /\ UNCHANGED <<app, cell_status, tasks_data, issued>>

\* "Clear All Cells"
ClearAllCells ==
    /\ app = "rich"
    /\ Click("ClearAllCells", <<>>, "none")
    /\ cells_data' = <<>>
    /\ charging_history' = <<>>
    /\ cell_status' = <<>>
    /\ UNCHANGED <<app, tasks_data, issued>>

demo_cells == << <<"lfp", 250>>, <<"mnc", 300>>, <<"nca", 280>>, <<"lto", 150>>, <<"lfp", 320>> >>

\* outcomes of the five cells' random draws explored for Load Demo Data
DemoDraws ==
    LET lo == CHOOSE r \in RichDraws : r.soc = 20
        hi == CHOOSE r \in RichDraws : r.soc = 100
    IN  { [i \in 1..5 |-> hi],
          [i \in 1..5 |-> IF i % 2 = 1 THEN lo ELSE hi] }

RECURSIVE LoadDemoLoop(_, _, _)
\* the loop body of Load Demo Data for i, i+1, ..., 5 on the three dicts st
LoadDemoLoop(st, i, draws) ==
    IF i > Len(demo_cells) THEN st
    ELSE LET cell_key == <<i, demo_cells[i][1]>>
         IN  LoadDemoLoop(
                [ cells   |-> Put(st.cells, cell_key,
                                  calculate_cell_params(demo_cells[i][1], demo_cells[i][2], draws[i])),
                  status  |-> Put(st.status, cell_key, "idle"),
                  history |-> Put(st.history, cell_key, <<>>) ],
                i + 1, draws)

\* variant: the button is rendered whatever the registry holds
LoadDemoDataAnytime(draws) ==
    /\ app = "rich"
    /\ Click("LoadDemoData", <<>>, "Demo data loaded")
    /\ LET st == LoadDemoLoop([cells |-> cells_data, status |-> cell_status,
                               history |-> charging_history], 1, draws)
       IN  /\ cells_data' = st.cells
           /\ cell_status' = st.status
           /\ charging_history' = st.history
    /\ UNCHANGED <<app, tasks_data, issued>>

\* "Load Demo Data": the button is rendered only while cells_data is empty
LoadDemoData(draws) ==
    /\ app = "rich"
    /\ cells_data = <<>>
    /\ Click("LoadDemoData", <<>>, "Demo data loaded")
    /\ LET st == LoadDemoLoop([cells |-> cells_data, status |-> cell_status,
                               history |-> charging_history], 1, draws)
       IN  /\ cells_data' = st.cells
           /\ cell_status' = st.status
           /\ charging_history' = st.history
    /\ UNCHANGED <<app, tasks_data, issued>>

\* values of random.randint(5, 15) explored
Steps == {StepLo, StepHi}

\* variant: the step is applied twice
ChargeSocDoubleStep(soc, d) == IF soc < 100 THEN Min(100, soc + 2 * d) ELSE soc

\* variant: the step is applied twice
DischargeSocDoubleStep(soc, d) == IF soc > 0 THEN Max(0, soc - 2 * d) ELSE soc

\* variant: no clamp at 0
DischargeSocNoClamp(soc, d) == IF soc > 0 THEN soc - d ELSE soc

\* variant: only half of the drawn step is applied
ChargeSocHalfStep(soc, d) == IF soc < 100 THEN Min(100, soc + d \div 2) ELSE soc

ChargeSoc(soc, d) == IF soc < 100 THEN Min(100, soc + d) ELSE soc

DischargeSoc(soc, d) == IF soc > 0 THEN Max(0, soc - d) ELSE soc

\* variant: writing the soc also counts a cycle
SetSocCountsCycle(d, k, soc) ==
    Put(d, k, [Get(d, k) EXCEPT !.soc = soc, !.cycles = Get(d, k).cycles + 1])

SetSoc(d, k, soc) == Put(d, k, [Get(d, k) EXCEPT !.soc = soc])

\* variant: a full cell cannot be charged
ChargeOnlyBelowFull(i, d) ==
    /\ app = "rich"
    /\ i \in 1..Len(cells_data)
    /\ cells_data[i].val.soc < 100
    /\ LET cell_key == cells_data[i].key
       IN  /\ OpClick("Charge", cell_key, "none")
           /\ cell_status' = Put(cell_status, cell_key, "charging")
           /\ cells_data' = SetSoc(cells_data, cell_key, ChargeSoc(cells_data[i].val.soc, d))
    /\ UNCHANGED <<app, charging_history, tasks_data, issued>>

\* "Charge" of the cell at position i
Charge(i, d) ==
    /\ app = "rich"
    /\ i \in 1..Len(cells_data)
    /\ LET cell_key == cells_data[i].key
       IN  /\ OpClick("Charge", cell_key, "none")
           /\ cell_status' = Put(cell_status, cell_key, "charging")
           /\ cells_data' = SetSoc(cells_data, cell_key, ChargeSoc(cells_data[i].val.soc, d))
    /\ UNCHANGED <<app, charging_history, tasks_data, issued>>

\* "Discharge" of the cell at position i
Discharge(i, d) ==
    /\ app = "rich"
    /\ i \in 1..Len(cells_data)
    /\ LET cell_key == cells_data[i].key
       IN  /\ OpClick("Discharge", cell_key, "none")
           /\ cell_status' = Put(cell_status, cell_key, "discharging")
           /\ cells_data' = SetSoc(cells_data, cell_key, DischargeSoc(cells_data[i].val.soc, d))
    /\ UNCHANGED <<app, charging_history, tasks_data, issued>>

\* variant: Stop also resets the cell's soc
StopResetsSoc(i) ==
    /\ app = "rich"
    /\ i \in 1..Len(cells_data)
    /\ LET cell_key == cells_data[i].key
       IN  /\ OpClick("Stop", cell_key, "none")
           /\ cell_status' = Put(cell_status, cell_key, "idle")
           /\ cells_data' = SetSoc(cells_data, cell_key, 0)
    /\ UNCHANGED <<app, charging_history, tasks_data, issued>>

\* "Stop" of the cell at position i
Stop(i) ==
    /\ app = "rich"
    /\ i \in 1..Len(cells_data)
    /\ LET cell_key == cells_data[i].key
       IN  /\ OpClick("Stop", cell_key, "none")
           /\ cell_status' = Put(cell_status, cell_key, "idle")
    /\ UNCHANGED <<app, cells_data, charging_history, tasks_data, issued>>

RECURSIVE BulkLoopSkipsLast(_, _, _, _)
\* variant: the loop stops one cell early
BulkLoopSkipsLast(st, i, status, ds) ==
    IF i >= Len(st.cells) THEN st
    ELSE LET cell_key == st.cells[i].key
             soc == st.cells[i].val.soc
             new == IF status = "charging" THEN ChargeSoc(soc, ds[i])
                    ELSE IF status = "discharging" THEN DischargeSoc(soc, ds[i])
                    ELSE soc
         IN  BulkLoopSkipsLast([ cells  |-> SetSoc(st.cells, cell_key, new),
                                 status |-> Put(st.status, cell_key, status) ],
                               i + 1, status, ds)

RECURSIVE BulkLoop(_, _, _, _)
\* the loop of Charge All / Discharge All / Stop All over cells_data.keys(),
\* from position i on; ds[i] is the random step drawn for the i-th cell
BulkLoop(st, i, status, ds) ==
    IF i > Len(st.cells) THEN st
    ELSE LET cell_key == st.cells[i].key
             soc == st.cells[i].val.soc
             new == IF status = "charging" THEN ChargeSoc(soc, ds[i])
                    ELSE IF status = "discharging" THEN DischargeSoc(soc, ds[i])
                    ELSE soc
         IN  BulkLoop([ cells  |-> SetSoc(st.cells, cell_key, new),
                        status |-> Put(st.status, cell_key, status) ],
                      i + 1, status, ds)

Bulk(op, status, ds) ==
    /\ app = "rich"
    /\ cells_data # <<>>
    /\ OpClick(op, <<>>, "none")
    /\ LET st == BulkLoop([cells |-> cells_data, status |-> cell_status], 1, status, ds)
       IN  /\ cells_data' = st.cells
           /\ cell_status' = st.status
    /\ UNCHANGED <<app, charging_history, tasks_data, issued>>

\* "Charge All Cells"
ChargeAll(ds) == Bulk("ChargeAll", "charging", ds)

\* "Discharge All Cells"
DischargeAll(ds) == Bulk("DischargeAll", "discharging", ds)

\* "Stop All Operations"
StopAll == Bulk("StopAll", "idle", [i \in 1..Len(cells_data) |-> StepLo])

\* System Status: sum(1 for status in cell_status.values() if status == s)
StatusCount(s) == Cardinality({i \in 1..Len(cell_status) : cell_status[i].val = s})

RichNext ==
    \/ \E a \in AddInputs : AddCell(a.type, a.current, a.draw)
    \/ ClearAllCells
    \/ \E draws \in DemoDraws : LoadDemoData(draws)
    \/ \E i \in 1..Len(cells_data), d \in Steps : Charge(i, d)
    \/ \E i \in 1..Len(cells_data), d \in Steps : Discharge(i, d)
    \/ \E i \in 1..Len(cells_data) : Stop(i)
    \/ \E ds \in [1..Len(cells_data) -> Steps] : ChargeAll(ds)
    \/ \E ds \in [1..Len(cells_data) -> Steps] : DischargeAll(ds)
    \/ StopAll

---------------------------------------------------------------------------
(* Simple variant handlers *)

RECURSIVE CreateLoop(_, _, _, _)
\* for idx, cell_type in enumerate(cell_configs, start=i): cells[key] = create_cell_data(...)
CreateLoop(cells, cell_configs, draws, i) ==
    IF i > Len(cell_configs) THEN cells
    ELSE CreateLoop(Put(cells, <<i, cell_configs[i]>>, create_cell_data(cell_configs[i], draws[i])),
                    cell_configs, draws, i + 1)

\* the cell types Quick Cell Setup creates: "lfp" if i % 2 == 0 else "li-ion", i = 0, 1, 2
QuickTypes == [i \in 1..3 |-> IF (i - 1) % 2 = 0 THEN "lfp" ELSE "li-ion"]

\* variant: the task list is emptied as well
QuickCellSetupClearsTasks(draws) ==
    /\ app = "simple"
    /\ Click("QuickCellSetup", <<>>, "3 cells created")
    /\ cells_data' = CreateLoop(<<>>, QuickTypes, draws, 1)
    /\ tasks_data' = <<>>
    /\ UNCHANGED <<app, cell_status, charging_history, issued>>

\* "Quick Cell Setup"
QuickCellSetup(draws) ==
    /\ app = "simple"
    /\ Click("QuickCellSetup", <<>>, "3 cells created")
    /\ cells_data' = CreateLoop(<<>>, QuickTypes, draws, 1)
    /\ UNCHANGED <<app, cell_status, charging_history, tasks_data, issued>>

sample_tasks ==
    << [key |-> 1, val |-> [task_type |-> "CC_CV", cc_cp |-> "5A", cv_voltage |-> 36,
                            current |-> 20, capacity |-> 1000, time_seconds |-> 3600]],
       [key |-> 2, val |-> [task_type |-> "IDLE", time_seconds |-> 1800]],
       [key |-> 3, val |-> [task_type |-> "CC_CD", cc_cp |-> "3A", voltage |-> 32,
                            capacity |-> 800, time_seconds |-> 2400]] >>

\* "Sample Tasks"
SampleTasks ==
    /\ app = "simple"
    /\ Click("SampleTasks", <<>>, "3 sample tasks created")
    /\ tasks_data' = sample_tasks
    /\ issued' = Keys(sample_tasks)
    /\ UNCHANGED <<app, cells_data, cell_status, charging_history>>

\* "Clear All Data"
ClearAllData ==
    /\ app = "simple"
    /\ Click("ClearAllData", <<>>, "All data cleared")
    /\ cells_data' = <<>>
    /\ tasks_data' = <<>>
    /\ issued' = {}
    /\ UNCHANGED <<app, cell_status, charging_history>>

\* variant: the test never matches (e.g. "LFP" in cell_key)
TypeOfKeyNeverLfp(cell_key) == IF cell_key[2] = "LFP" THEN "lfp" ELSE "li-ion"

\* cell_type = "lfp" if "lfp" in cell_key else "li-ion"
TypeOfKey(cell_key) == IF cell_key[2] = "lfp" THEN "lfp" ELSE "li-ion"

RECURSIVE RefreshLoop(_, _, _)
\* for cell_key in cells_data: cells_data[cell_key] = create_cell_data(type of key, idx)
RefreshLoop(cells, draws, i) ==
    IF i > Len(cells) THEN cells
    ELSE RefreshLoop(Put(cells, cells[i].key, create_cell_data(TypeOfKey(cells[i].key), draws[i])),
                     draws, i + 1)

\* "Refresh Data"
RefreshData(draws) ==
    /\ app = "simple"
    /\ Click("RefreshData", <<>>, "Cell data refreshed")
    /\ cells_data' = RefreshLoop(cells_data, draws, 1)
    /\ UNCHANGED <<app, cell_status, charging_history, tasks_data, issued>>

\* variant: the registry is not emptied first
CreateCellsKeepsOld(cell_configs, draws) ==
    /\ app = "simple"
    /\ Click("CreateCells", cell_configs, "Cells created")
    /\ cells_data' = CreateLoop(cells_data, cell_configs, draws, 1)
    /\ UNCHANGED <<app, cell_status, charging_history, tasks_data, issued>>

\* cell_form, "Create Cells" submitted with one selected type per cell
CreateCells(cell_configs, draws) ==
    /\ app = "simple"
    /\ Click("CreateCells", cell_configs, "Cells created")
    /\ cells_data' = CreateLoop(<<>>, cell_configs, draws, 1)
    /\ UNCHANGED <<app, cell_status, charging_history, tasks_data, issued>>

\* values of the task form's widgets explored (voltages, currents and
\* capacities in tenths, time in seconds; the number inputs have no minimum).
\* A widget the selected type does not render is never read.
TaskSubmissions ==
    { [task_type |-> "CC_CV", cc_input |-> "5A", cv_voltage |-> 36, voltage |-> 36,
       current |-> 20, capacity |-> 1000, time_seconds |-> 3600],
      [task_type |-> "IDLE", cc_input |-> "5A", cv_voltage |-> 36, voltage |-> 36,
       current |-> 20, capacity |-> 1000, time_seconds |-> 1800],
      [task_type |-> "IDLE", cc_input |-> "5A", cv_voltage |-> 36, voltage |-> 36,
       current |-> 20, capacity |-> 1000, time_seconds |-> -60],
      [task_type |-> "CC_CD", cc_input |-> "10W", cv_voltage |-> 36, voltage |-> 36,
       current |-> 20, capacity |-> 1000, time_seconds |-> 3600] }

\* variant: one flat record, whatever the type
task_form_flat(task_type, f) ==
    [task_type |-> task_type, cc_cp |-> f.cc_input, cv_voltage |-> f.cv_voltage,
     voltage |-> f.voltage, current |-> f.current, capacity |-> f.capacity,
     time_seconds |-> f.time_seconds]

\* task_data as the task form builds it for the selected task_type
task_form(task_type, f) ==
    IF task_type = "CC_CV"
    THEN [task_type |-> task_type, cc_cp |-> f.cc_input, cv_voltage |-> f.cv_voltage,
          current |-> f.current, capacity |-> f.capacity, time_seconds |-> f.time_seconds]
    ELSE IF task_type = "IDLE"
    THEN [task_type |-> task_type, time_seconds |-> f.time_seconds]
    ELSE [task_type |-> task_type, cc_cp |-> f.cc_input, voltage |-> f.voltage,
          capacity |-> f.capacity, time_seconds |-> f.time_seconds]

\* the task_data records submitted
TaskInputs == {task_form(f.task_type, f) : f \in TaskSubmissions}

\* task_key = f"task_{len(tasks_data) + 1}"
NextTaskKey(tasks) == Len(tasks) + 1

\* task_form, "Add Task" submitted
AddTask(task_data) ==
    /\ app = "simple"
    /\ LET task_key == NextTaskKey(tasks_data)
       IN  /\ Click("AddTask", task_key, "Task added")
           /\ tasks_data' = Put(tasks_data, task_key, task_data)
           /\ issued' = issued \cup {task_key}
    /\ UNCHANGED <<app, cells_data, cell_status, charging_history>>

\* "Delete task_<n>": one button per task in the list, here the i-th
DeleteTask(i) ==
    /\ app = "simple"
    /\ i \in 1..Len(tasks_data)
    /\ Click("DeleteTask", tasks_data[i].key, "none")
    /\ tasks_data' = Del(tasks_data, tasks_data[i].key)
    /\ UNCHANGED <<app, cells_data, cell_status, charging_history, issued>>

\* number_of_cells values explored (the input allows 1 .. 20)
FormCounts == 1..Min(FormCellsMax, MaxFormCells)

SimpleNext ==
    \/ \E draws \in SimpleDrawSeqs(3) : QuickCellSetup(draws)
    \/ SampleTasks
    \/ ClearAllData
    \/ \E draws \in SimpleDrawSeqs(Len(cells_data)) : RefreshData(draws)
    \/ \E n \in FormCounts :
         \E cell_configs \in [1..n -> SimpleTypes], draws \in SimpleDrawSeqs(n) :
            CreateCells(cell_configs, draws)
    \/ \E task_data \in TaskInputs : AddTask(task_data)
    \/ \E i \in 1..Len(tasks_data) : DeleteTask(i)

Next == RichNext \/ SimpleNext

Spec == Init /\ [][Next]_vars

----------------------------------------------------------------------------
(* The two parameter functions called on their own *)

\* cell_type arguments explored: the chemistries either application names
\* and one that neither does
ParamTypes == CellTypes \cup SimpleTypes \cup {"unknown"}

\* current arguments explored (hundredths of an ampere)
ParamCurrents == {10, 13, 125, 150, 250, 280, 300, 10000}

\* cells_data[cell_key] = calculate_cell_params(cell_type, current), as at
\* lines 124-125 and 599-600, for any cell_type string: the function has no
\* raise statement, so every call returns a dict
CallCalculateCellParams(cell_type, current, draw) ==
    /\ app = "rich"
    /\ cells_data' = Put(<<>>, <<1, cell_type>>, calculate_cell_params(cell_type, current, draw))
    /\ last' = [op |-> "calculate_cell_params", key |-> <<1, cell_type>>, msg |-> "returned"]
    /\ UNCHANGED <<app, cell_status, charging_history, tasks_data, issued, clicks, ops>>

\* cells_data[cell_key] = create_cell_data(cell_type, idx), as at lines
\* 371-372, for any cell_type string: the function has no raise statement
CallCreateCellData(cell_type, draw) ==
    /\ app = "simple"
    /\ cells_data' = Put(<<>>, <<1, cell_type>>, create_cell_data(cell_type, draw))
    /\ last' = [op |-> "create_cell_data", key |-> <<1, cell_type>>, msg |-> "returned"]
    /\ UNCHANGED <<app, cell_status, charging_history, tasks_data, issued, clicks, ops>>

ParamsNext ==
    \/ \E cell_type \in ParamTypes, current \in ParamCurrents, draw \in RichDraws :
         CallCalculateCellParams(cell_type, current, draw)
    \/ \E cell_type \in ParamTypes, draw \in SimpleDraws :
         CallCreateCellData(cell_type, draw)

ParamsSpec == Init /\ [][ParamsNext]_vars

----------------------------------------------------------------------------
(* Runs of consecutive charge or discharge steps on one cell *)

\* longest run of consecutive steps of one kind explored
MaxRun == 21

\* outcomes of the draws of the Add Cell that created the cell: every soc of
\* random.randint(20, 100)
RunDraws == {[temp |-> 317, soc |-> s, health |-> 92, cycles |-> 250] : s \in 20..100}

\* every value of random.randint(5, 15)
RunSteps == StepLo..StepHi

\* the session after one accepted Add Cell
RunInit ==
    /\ app = "rich"
    /\ \E draw \in RunDraws :
          cells_data = Put(<<>>, <<1, "lfp">>, calculate_cell_params("lfp", 125, draw))
    /\ cell_status = Put(<<>>, <<1, "lfp">>, "idle")
    /\ charging_history = Put(<<>>, <<1, "lfp">>, <<>>)
    /\ tasks_data = <<>>
    /\ issued = {}
    /\ last = [op |-> "AddCell", key |-> <<1, "lfp">>, msg |-> "Added"]
    /\ clicks = 0
    /\ ops = 0

\* the number of steps of kind op, this one included, since the last step of
\* another kind: kept in ops
RunLength(op) == (IF last.op = op THEN ops ELSE 0) + 1

\* "Charge" of the only cell, as one more step of a run
ChargeRun(d) ==
    /\ RunLength("Charge") <= MaxRun
    /\ LET cell_key == cells_data[1].key
       IN  /\ cell_status' = Put(cell_status, cell_key, "charging")
           /\ cells_data' = SetSoc(cells_data, cell_key, ChargeSoc(cells_data[1].val.soc, d))
           /\ last' = [op |-> "Charge", key |-> cell_key, msg |-> "none"]
    /\ ops' = RunLength("Charge")
    /\ UNCHANGED <<app, charging_history, tasks_data, issued, clicks>>

\* "Discharge" of the only cell, as one more step of a run
DischargeRun(d) ==
    /\ RunLength("Discharge") <= MaxRun
    /\ LET cell_key == cells_data[1].key
       IN  /\ cell_status' = Put(cell_status, cell_key, "discharging")
           /\ cells_data' = SetSoc(cells_data, cell_key, DischargeSoc(cells_data[1].val.soc, d))
           /\ last' = [op |-> "Discharge", key |-> cell_key, msg |-> "none"]
    /\ ops' = RunLength("Discharge")
    /\ UNCHANGED <<app, charging_history, tasks_data, issued, clicks>>

RunNext ==
    \/ \E d \in RunSteps : ChargeRun(d)
    \/ \E d \in RunSteps : DischargeRun(d)

RunSpec == RunInit /\ [][RunNext]_vars

----------------------------------------------------------------------------
(* The simple variant's cell registry with every size of the cell form *)

\* selections of the n "Cell Type" boxes explored: all lfp, and li-ion / lfp
\* alternating
WideConfigs(n) ==
    { [i \in 1..n |-> "lfp"],
      [i \in 1..n |-> IF i % 2 = 1 THEN "li-ion" ELSE "lfp"] }

\* the handlers that write cells_data, Create Cells with number_of_cells
\* anywhere in 1 .. 20
RegistryNext ==
    \/ \E draws \in SimpleDrawSeqs(3) : QuickCellSetup(draws)
    \/ ClearAllData
    \/ \E draws \in SimpleDrawSeqs(Len(cells_data)) : RefreshData(draws)
    \/ \E n \in 1..FormCellsMax :
         \E cell_configs \in WideConfigs(n), draws \in SimpleDrawSeqs(n) :
            CreateCells(cell_configs, draws)

\* the session of the simple variant when it starts
RegistryInit ==
    /\ app = "simple"
    /\ cells_data = <<>>
    /\ cell_status = <<>>
    /\ charging_history = <<>>
    /\ tasks_data = <<>>
    /\ last = [op |-> "start", key |-> <<>>, msg |-> "none"]
    /\ issued = {}
    /\ clicks = 0
    /\ ops = 0

RegistrySpec == RegistryInit /\ [][RegistryNext]_vars

---------------------------------------------------------------------------
(* Properties *)

\* the step taken is a run of handler op
StepOf(op) == clicks' = clicks + 1 /\ last'.op = op

Cell(i) == cells_data[i].val

\* C1: the id given to a task by Add Task is greater than every id assigned
\* before it, including the ids of tasks deleted in between.
C1_TaskIdsNeverReused ==
    [][StepOf("AddTask") => \A n \in issued : last'.key > n]_vars

\* C2: a submitted Add Task makes the task list exactly one entry longer, puts
\* the new task last, and leaves every task already in the list unchanged.
C2_AddTaskAppends ==
    [][StepOf("AddTask") =>
          /\ Len(tasks_data') = Len(tasks_data) + 1
          /\ tasks_data'[Len(tasks_data')].key = last'.key
          /\ SubSeq(tasks_data', 1, Len(tasks_data)) = tasks_data]_vars

\* C3: in the rich variant the cell registry never holds more than 8 cells.
C3_RegistryAtMostEight ==
    app = "rich" => Len(cells_data) <= MaxRegistry

\* a full registry on which a further Add Cell has been submitted
C3_Witness ==
    /\ app = "rich"
    /\ Len(cells_data) = MaxRegistry
    /\ last.op = "AddCell"
    /\ last.msg = "none"

\* C4: an Add Cell submitted on a full registry reports CapacityExceeded and
\* leaves the registry, the status map and the history map as they were.
C4_CapacityExceededReported ==
    [][(StepOf("AddCell") /\ Len(cells_data) >= MaxRegistry) =>
          /\ last'.msg = "CapacityExceeded"
          /\ UNCHANGED <<cells_data, cell_status, charging_history>>]_vars

\* C5: in the rich variant every cell's soc is in 0..100, and in 20..100 for
\* the cells just created by Add Cell or Load Demo Data.
C5_SocInRange ==
    app = "rich" =>
        /\ \A i \in 1..Len(cells_data) : Cell(i).soc \in 0..100
        /\ (last.op = "AddCell" /\ last.msg = "Added") =>
               Get(cells_data, last.key).soc \in 20..100
        /\ last.op = "LoadDemoData" =>
               \A i \in 1..Len(cells_data) : Cell(i).soc \in 20..100

\* a discharge has brought a cell to soc 0 while another cell was charged to 100
C5_Witness ==
    /\ app = "rich"
    /\ last.op \in {"Discharge", "DischargeAll"}
    /\ \E i \in 1..Len(cells_data) : Cell(i).soc = 0
    /\ \E i \in 1..Len(cells_data) :
          Cell(i).soc = 100 /\ Get(cell_status, cells_data[i].key) = "charging"

\* C6: every cell in the registry satisfies min_voltage < voltage <= max_voltage.
C6_VoltageBoundsOrdered ==
    \A i \in 1..Len(cells_data) :
        /\ Cell(i).min_voltage < Cell(i).voltage
        /\ Cell(i).voltage <= Cell(i).max_voltage

\* c is x (in thousandths) rounded to hundredths, ties to even
IsRounded2(c, x) ==
    LET diff == 10 * c - x
    IN  /\ diff \in -5..5
        /\ (diff \in {-5, 5} => c % 2 = 0)

\* C7: capacity = round(voltage * current, 2) for every cell of either variant,
\* in every reachable state.
C7_CapacityIsRoundedProduct ==
    \A i \in 1..Len(cells_data) :
        IsRounded2(Cell(i).capacity, Cell(i).voltage * Cell(i).current)

\* Refresh Data has run on a cell whose voltage * current is not a whole
\* number of hundredths, and so has been rounded
C7_Witness ==
    /\ app = "simple"
    /\ last.op = "RefreshData"
    /\ \E i \in 1..Len(cells_data) :
          /\ (Cell(i).voltage * Cell(i).current) % 10 > 5
          /\ Cell(i).capacity = (Cell(i).voltage * Cell(i).current) \div 10 + 1

\* C9: Charge sets the cell's status to charging; from soc < 100 the new soc is
\* min(100, soc + d) for some d in 5..15, from soc = 100 it is unchanged, and
\* from soc >= 95 it is exactly 100.
C9_ChargeStep ==
    [][StepOf("Charge") =>
          LET k == last'.key
              old == Get(cells_data, k).soc
              new == Get(cells_data', k).soc
          IN  /\ Get(cell_status', k) = "charging"
              /\ old < 100 => \E d \in StepLo..StepHi : new = Min(100, old + d)
              /\ old = 100 => new = 100
              /\ old >= 95 => new = 100]_vars

\* the only cell, created with soc 95, has been charged once and is at 100
C9_Witness ==
    /\ app = "rich"
    /\ last.op = "Charge"
    /\ clicks = 2
    /\ Len(cells_data) = 1
    /\ Cell(1).cell_type = "lfp"
    /\ Cell(1).soc = 100
    /\ Get(cell_status, last.key) = "charging"

\* C10: Discharge sets the cell's status to discharging; from soc > 0 the new
\* soc is max(0, soc - d) for some d in 5..15, from soc = 0 it is unchanged,
\* and from soc <= 5 it is exactly 0.
C10_DischargeStep ==
    [][StepOf("Discharge") =>
          LET k == last'.key
              old == Get(cells_data, k).soc
              new == Get(cells_data', k).soc
          IN  /\ Get(cell_status', k) = "discharging"
              /\ old > 0 => \E d \in StepLo..StepHi : new = Max(0, old - d)
              /\ old = 0 => new = 0
              /\ old <= 5 => new = 0]_vars

\* the only cell has been brought to soc 0 by the third of three charge /
\* discharge / stop clicks, a Discharge at soc <= 15 (20 -> 5 -> 0 -> 0 among them)
C10_Witness ==
    /\ app = "rich"
    /\ last.op = "Discharge"
    /\ clicks = 4
    /\ ops = 3
    /\ Len(cells_data) = 1
    /\ cell_status[1].val = "discharging"
    /\ Cell(1).soc = 0

\* the keys of dict d, in order
KeySeq(d) == [i \in 1..Len(d) |-> d[i].key]

\* C11: Stop sets that cell's status to idle and changes nothing else (no soc,
\* no other field, no other cell's status); Stop All sets every status to idle
\* and changes no soc.
C11_StopFrame ==
    [][/\ StepOf("Stop") =>
            /\ cells_data' = cells_data
            /\ charging_history' = charging_history
            /\ KeySeq(cell_status') = KeySeq(cell_status)
            /\ \A i \in 1..Len(cell_status) :
                  cell_status'[i].val =
                      IF cell_status[i].key = last'.key THEN "idle" ELSE cell_status[i].val
       /\ StepOf("StopAll") =>
            /\ cells_data' = cells_data
            /\ charging_history' = charging_history
            /\ KeySeq(cell_status') = KeySeq(cell_status)
            /\ \A i \in 1..Len(cell_status) : cell_status'[i].val = "idle"]_vars

\* a cell whose soc had been moved off its created value has been stopped
\* while another cell stays charging
C11_Witness ==
    /\ app = "rich"
    /\ last.op = "Stop"
    /\ Len(cells_data) = 2
    /\ Get(cell_status, last.key) = "idle"
    /\ Get(cells_data, last.key).soc \notin {20, 95, 100}
    /\ \E i \in 1..Len(cell_status) : cell_status[i].val = "charging"

\* C12: Charge All / Discharge All leave every cell charging (discharging) and
\* give each cell the individual step: new soc = min(100, old + d_i), resp.
\* max(0, old - d_i), for a d_i in 5..15 of its own.
C12_BulkStep ==
    [][/\ StepOf("ChargeAll") =>
            /\ KeySeq(cells_data') = KeySeq(cells_data)
            /\ \A i \in 1..Len(cells_data) :
                  LET old == cells_data[i].val.soc
                      new == cells_data'[i].val.soc
                  IN  /\ Get(cell_status', cells_data[i].key) = "charging"
                      /\ IF old < 100
                         THEN \E d \in StepLo..StepHi : new = Min(100, old + d)
                         ELSE new = old
       /\ StepOf("DischargeAll") =>
            /\ KeySeq(cells_data') = KeySeq(cells_data)
            /\ \A i \in 1..Len(cells_data) :
                  LET old == cells_data[i].val.soc
                      new == cells_data'[i].val.soc
                  IN  /\ Get(cell_status', cells_data[i].key) = "discharging"
                      /\ IF old > 0
                         THEN \E d \in StepLo..StepHi : new = Max(0, old - d)
                         ELSE new = old]_vars

\* Charge All right after Load Demo Data: the first and third cell, both
\* created with soc 20, end with different soc
C12_Witness ==
    /\ app = "rich"
    /\ last.op = "ChargeAll"
    /\ clicks = 2
    /\ Len(cells_data) = 5
    /\ Cell(1).soc = 25
    /\ Cell(3).soc = 35
    /\ \A i \in 1..Len(cell_status) : cell_status[i].val = "charging"

C14_RefreshPreserves ==
    [][StepOf("RefreshData") =>
          /\ KeySeq(cells_data') = KeySeq(cells_data)
          /\ \A i \in 1..Len(cells_data) :
                /\ cells_data'[i].val.voltage = Cell(i).voltage
                /\ cells_data'[i].val.min_voltage = Cell(i).min_voltage
                /\ cells_data'[i].val.max_voltage = Cell(i).max_voltage
                /\ DOMAIN cells_data'[i].val = DOMAIN Cell(i)]_vars

\* Refresh Data has run, as the second click, on a registry holding both
\* chemistries, and has sampled different currents for the first two cells
C14_Witness ==
    /\ app = "simple"
    /\ last.op = "RefreshData"
    /\ clicks = 2
    /\ Len(cells_data) = 3
    /\ {cells_data[i].key[2] : i \in 1..3} = SimpleTypes
    /\ Cell(1).current # Cell(2).current
    /\ Cell(1).voltage = 32
    /\ Cell(2).voltage = 36

\* C15: every task in the list has time_seconds >= 0 (a negative duration is
\* rejected and not stored).
C15_DurationsNonNegative ==
    \A i \in 1..Len(tasks_data) : tasks_data[i].val.time_seconds >= 0

\* the fields the claim gives each task type, beside the tag
TaskFields(task_type) ==
    CASE task_type = "CC_CV" -> {"cc_cp", "cv_voltage", "current", "capacity", "time_seconds"}
      [] task_type = "IDLE"  -> {"time_seconds"}
      [] task_type = "CC_CD" -> {"cc_cp", "voltage", "capacity", "time_seconds"}
      [] OTHER -> {}

\* C20: every task of the list, whether added by the form or by Sample
\* Tasks, is tagged CC_CV, IDLE or CC_CD and carries exactly the fields of its
\* type.
C20_TaskFieldsPerType ==
    \A i \in 1..Len(tasks_data) :
        /\ tasks_data[i].val.task_type \in {"CC_CV", "IDLE", "CC_CD"}
        /\ DOMAIN tasks_data[i].val =
              TaskFields(tasks_data[i].val.task_type) \cup {"task_type"}

\* the three sample tasks followed by a CC_CD task added with the form, and
\* all three types present
C20_Witness ==
    /\ app = "simple" /\ last.op = "AddTask" /\ Len(tasks_data) = 4
    /\ \A i \in 1..3 : tasks_data[i] = sample_tasks[i]
    /\ tasks_data[4].val.task_type = "CC_CD" /\ tasks_data[4].val.voltage = 36

\* the handlers of the charging control and of the Add Cell form
ControlOrAdd == {"Charge", "Discharge", "Stop", "ChargeAll", "DischargeAll", "StopAll", "AddCell"}

\* C17: in the rich variant every cell's health is in 85..100 and its cycles
\* in 0..500, and a charge, discharge or stop of one cell or of all cells, or
\* an Add Cell, leaves every cell already in the registry under its key with
\* all its fields but soc unchanged.
C17_OnlySocMutates ==
    /\ [](app = "rich" =>
            \A i \in 1..Len(cells_data) :
                Cell(i).health \in 85..100 /\ Cell(i).cycles \in 0..500)
    /\ [][(clicks' = clicks + 1 /\ last'.op \in ControlOrAdd) =>
            /\ Len(cells_data') >= Len(cells_data)
            /\ \A i \in 1..Len(cells_data) :
                  /\ cells_data'[i].key = cells_data[i].key
                  /\ [cells_data'[i].val EXCEPT !.soc = Cell(i).soc] = Cell(i)]_vars

\* a bulk discharge has moved the soc of a cell created with health 92 and
\* 250 cycles, in a registry to which another cell was added after it
C17_Witness ==
    /\ app = "rich" /\ last.op = "DischargeAll" /\ Len(cells_data) >= 2
    /\ Cell(1).health = 92 /\ Cell(1).cycles = 250 /\ Cell(1).soc < 95
    /\ Cell(1).temp = 317 /\ Cell(1).cell_type = "lfp"

\* C18: in the rich variant the cell at position i of the registry has number
\* i (ids cell_1 .. cell_k in insertion order, hence unique); an accepted Add
\* Cell creates an id that was not in the registry and appends it, the
\* registry growing by one with every earlier entry kept; and every step
\* either empties the registry or keeps the ids it held, in order.
C18_IdsUniqueImmutable ==
    /\ [](app = "rich" =>
            /\ \A i \in 1..Len(cells_data) : cells_data[i].key[1] = i
            /\ \A i, j \in 1..Len(cells_data) :
                  cells_data[i].key = cells_data[j].key => i = j)
    /\ [][/\ (StepOf("AddCell") /\ last'.msg = "Added") =>
                /\ last'.key \notin Keys(cells_data)
                /\ Len(cells_data') = Len(cells_data) + 1
                /\ SubSeq(cells_data', 1, Len(cells_data)) = cells_data
                /\ cells_data'[Len(cells_data')].key = last'.key
          /\ app = "rich" =>
                \/ cells_data' = <<>>
                \/ /\ Len(cells_data') >= Len(cells_data)
                   /\ SubSeq(KeySeq(cells_data'), 1, Len(cells_data)) = KeySeq(cells_data)]_vars

\* Add Cell has been accepted on a registry of seven cells
C18_Witness ==
    /\ app = "rich" /\ last.op = "AddCell" /\ last.msg = "Added"
    /\ Len(cells_data) = MaxRegistry
    /\ last.key[1] = MaxRegistry

Statuses == {"idle", "charging", "discharging"}

\* C19: in the rich variant every status is idle, charging or discharging; a
\* cell created by Add Cell or Load Demo Data is idle; and whatever a cell's
\* status and soc, Charge, Discharge and Stop of it are enabled (while the
\* explored session has clicks left) and lead to charging, discharging and idle.
C19_FreeTransitions ==
    /\ [](app = "rich" =>
            /\ \A i \in 1..Len(cell_status) : cell_status[i].val \in Statuses
            /\ (clicks < MaxClicks /\ ops + Len(cells_data) <= MaxOpWork) =>
                  \A i \in 1..Len(cells_data) :
                      /\ \A d \in Steps : ENABLED Charge(i, d)
                      /\ \A d \in Steps : ENABLED Discharge(i, d)
                      /\ ENABLED Stop(i))
    /\ [][/\ (StepOf("AddCell") /\ last'.msg = "Added") =>
                Get(cell_status', last'.key) = "idle"
          /\ StepOf("LoadDemoData") =>
                /\ Len(cell_status') = Len(demo_cells)
                /\ \A i \in 1..Len(cell_status') : cell_status'[i].val = "idle"
          /\ StepOf("Charge") => Get(cell_status', last'.key) = "charging"
          /\ StepOf("Discharge") => Get(cell_status', last'.key) = "discharging"
          /\ StepOf("Stop") => Get(cell_status', last'.key) = "idle"]_vars

\* a cell that was full has been charged, in a registry whose cells show all
\* three statuses
C19_Witness ==
    /\ app = "rich" /\ last.op = "Charge"
    /\ Get(cells_data, last.key).soc = 100
    /\ Get(cells_data, last.key).cell_type = "mnc"
    /\ {cell_status[i].val : i \in 1..Len(cell_status)} = Statuses

\* C16: a call of calculate_cell_params with a cell_type outside cell_types,
\* or of create_cell_data with one outside its selectbox's options, is an
\* InvalidArgument error and leaves no cell behind.
C16_UnknownChemistryRejected ==
    ( \/ last.op = "calculate_cell_params" /\ last.key[2] \notin CellTypes
      \/ last.op = "create_cell_data" /\ last.key[2] \notin SimpleTypes )
    => (last.msg = "InvalidArgument" /\ cells_data = <<>>)

\* C21: in the rich variant cells_data, cell_status and charging_history have
\* the same keys, and the charging, discharging and idle counts of the status
\* summary add up to the number of cells.
C21_MapsAligned ==
    app = "rich" =>
        /\ Keys(cell_status) = Keys(cells_data)
        /\ Keys(charging_history) = Keys(cells_data)
        /\ Len(cell_status) = Len(cells_data)
        /\ Len(charging_history) = Len(cells_data)
        /\ StatusCount("charging") + StatusCount("discharging") + StatusCount("idle")
              = Len(cells_data)

\* three cells added, one then charged and one discharged: one cell in each of
\* the three statuses
C21_Witness ==
    /\ app = "rich" /\ Len(cells_data) = 3 /\ Len(charging_history) = 3
    /\ StatusCount("charging") = 1 /\ StatusCount("discharging") = 1
    /\ StatusCount("idle") = 1

\* C22: a charge step from soc < 100 raises the soc by at least 5 or to 100
\* and one from 100 keeps it; after 20 consecutive charge steps the soc is 100.
\* Symmetrically a discharge step from soc > 0 lowers it by at least 5 or to 0
\* and one from 0 keeps it; after 20 consecutive discharge steps the soc is 0.
C22_RunsConverge ==
    /\ []((last.op = "Charge" /\ ops >= 100 \div StepLo) => Cell(1).soc = 100)
    /\ []((last.op = "Discharge" /\ ops >= 100 \div StepLo) => Cell(1).soc = 0)
    /\ [][/\ last'.op = "Charge" =>
                cells_data'[1].val.soc >= Min(100, Cell(1).soc + StepLo)
          /\ last'.op = "Discharge" =>
                cells_data'[1].val.soc <= Max(0, Cell(1).soc - StepLo)]_vars

\* a run of charge steps has reached 100 with its twentieth step and not
\* before: every step of the run added 5, starting from soc 0
C22_Witness ==
    /\ last.op = "Charge" /\ ops = 100 \div StepLo - 1
    /\ Cell(1).soc = 100 - StepLo
    /\ ENABLED ChargeRun(StepLo)

\* C23: in the simple variant Create Cells with the n selected types
\* t_1 .. t_n (1 <= n <= 20) leaves exactly the cells cell_1_<t_1> ..
\* cell_n_<t_n> in the registry, Quick Cell Setup exactly cell_1_lfp,
\* cell_2_li-ion, cell_3_lfp, and the registry never holds more than 20 cells.
C23_CreateReplaces ==
    /\ [](app = "simple" => Len(cells_data) <= FormCellsMax)
    /\ [][/\ StepOf("CreateCells") =>
                LET cell_configs == last'.key
                IN  /\ Len(cell_configs) \in 1..FormCellsMax
                    /\ KeySeq(cells_data') =
                          [i \in 1..Len(cell_configs) |-> <<i, cell_configs[i]>>]
          /\ StepOf("QuickCellSetup") =>
                KeySeq(cells_data') = << <<1, "lfp">>, <<2, "li-ion">>, <<3, "lfp">> >>]_vars

\* Create Cells has been submitted with the largest number of cells, as a
\* later click of the session
C23_Witness ==
    /\ app = "simple" /\ last.op = "CreateCells" /\ clicks > 1
    /\ Len(cells_data) = FormCellsMax
    /\ cells_data[FormCellsMax].key = <<FormCellsMax, "lfp">>
    /\ cells_data[1].key = <<1, "li-ion">>

\* C24: in the simple variant Add Task, Delete task and Sample Tasks leave the
\* cell registry unchanged, Create Cells, Quick Cell Setup and Refresh Data
\* leave the task list unchanged, and a step that changes both is Clear All
\* Data.
C24_CellsTasksIndependent ==
    [][/\ (clicks' = clicks + 1 /\ last'.op \in {"AddTask", "DeleteTask", "SampleTasks"})
            => cells_data' = cells_data
       /\ (clicks' = clicks + 1 /\ last'.op \in {"CreateCells", "QuickCellSetup", "RefreshData"})
            => tasks_data' = tasks_data
       /\ (app = "simple" /\ cells_data' # cells_data /\ tasks_data' # tasks_data)
            => last'.op = "ClearAllData"]_vars

\* Refresh Data has run on three cells while the list holds the three sample
\* tasks and a fourth, added with the form
C24_Witness ==
    /\ app = "simple" /\ last.op = "RefreshData"
    /\ Len(cells_data) = 3 /\ Len(tasks_data) = 4
    /\ tasks_data[4].val.task_type = "CC_CV"

====
